---- MODULE Spec2Model ----
(***************************************************************************)
(* Fuel Cart Vouch Bot (src/bot.py): the points ledger, submission intake  *)
(* (on_message), the review case (VouchView) with its Verify / Reject      *)
(* handlers, and the points commands.                                      *)
(*                                                                         *)
(* Two specifications:                                                     *)
(*   Spec        one bot process.  Every handler is a coroutine of the     *)
(*               asyncio event loop: the code between two awaits runs as   *)
(*               one step, other handlers run while a handler awaits.      *)
(*   SpecLedger  the ledger functions called by independent units of work  *)
(*               on one key of a shared store, one SQL statement per step  *)
(*               (pg_conn.autocommit = True: a statement is a transaction).*)
(***************************************************************************)
EXTENDS Integers, Sequences, FiniteSets, TLC

VARIABLES
    points,     \* the points table: a function from the keys that have a row to their points
    calls,      \* SpecLedger: each unit of work's ledger call and its position in it
    start,      \* SpecLedger: the balance of the key before the batch
    intake,     \* per message id: the on_message coroutine (position, what it did)
    files,      \* per message id: which of temp/user_<id>.png, temp/processed_<id>.jpg exist
    cases,      \* per message id: the VouchView built for it and its moderation message
    handlers,   \* per message id: the button handlers started on its view, in click order
    trace,      \* per message id: ledger calls and outbound sends/edits made for the case
    cmdlog      \* the number of commands run and the last one with the reply its invoker got

vars == <<points, calls, start, intake, files, cases, handlers, trace, cmdlog>>

\* ---------------------------------------------------------------- bounds

NMembers == 2
MaxMsgs == 1
MaxClicks == 2
MaxCmds == 1
MaxAmt == 1
MaxBal == 2
NWorkers == 2
MaxCalls == 3
MaxCmdSeq == 2
MaxRuns == 2

Members == 1..NMembers
MsgIds == 1..MaxMsgs
Workers == 1..NWorkers

\* ---------------------------------------------------------------- config

PER_GUILD == TRUE
GUILD_ID == 1

Max(a, b) == IF a >= b THEN a ELSE b

\* ---------------------------------------------------------------- ledger

\* The primary key of a member's row: (guild_id, user_id) or (user_id).
Key(user_id, guild_id) == IF PER_GUILD THEN <<guild_id, user_id>> ELSE <<user_id>>

\* INSERT ... ON CONFLICT DO UPDATE SET points = v: the row exists afterwards.
Upsert(tbl, k, v) == [x \in DOMAIN tbl \cup {k} |-> IF x = k THEN v ELSE tbl[x]]

\* SELECT points ...; int(row[0]) if row else 0
get_points(tbl, user_id, guild_id) ==
    LET k == Key(user_id, guild_id)
    IN  IF k \in DOMAIN tbl THEN tbl[k] ELSE 0

\* A plausible slip in the upsert of add_points: SET points = EXCLUDED.points.
add_points_overwrite(tbl, user_id, amount, guild_id) ==
    Upsert(tbl, Key(user_id, guild_id), amount)

\* INSERT (k, amount) ON CONFLICT DO UPDATE SET points = points.points + EXCLUDED.points
\* The table after the statement; RETURNING points is the row's value in it.
add_points(tbl, user_id, amount, guild_id) ==
    LET k == Key(user_id, guild_id)
    IN  Upsert(tbl, k, IF k \in DOMAIN tbl THEN tbl[k] + amount ELSE amount)

\* A plausible slip in remove_points: no clamp.
new_total_unclamped(current, amount) == current - amount

\* new_total = max(0, current - amount)
new_total(current, amount) == Max(0, current - amount)

\* The write of remove_points: INSERT (k, new_total) ON CONFLICT DO UPDATE SET points = EXCLUDED.points
remove_points_write(tbl, user_id, total, guild_id) ==
    Upsert(tbl, Key(user_id, guild_id), total)

\* A slip: the removal is made as a negative credit.
remove_points_by_delta(tbl, user_id, amount, guild_id) ==
    add_points(tbl, user_id, 0 - amount, guild_id)

\* remove_points run without interruption: the read, the clamp and the write.
remove_points(tbl, user_id, amount, guild_id) ==
    remove_points_write(tbl, user_id,
                        new_total(get_points(tbl, user_id, guild_id), amount), guild_id)

\* A slip: UPDATE points SET points = 0, which creates no row.
reset_points_update_only(tbl, user_id, guild_id) ==
    IF Key(user_id, guild_id) \in DOMAIN tbl THEN Upsert(tbl, Key(user_id, guild_id), 0) ELSE tbl

\* INSERT (k, 0) ON CONFLICT DO UPDATE SET points = 0
reset_points(tbl, user_id, guild_id) == Upsert(tbl, Key(user_id, guild_id), 0)

\* ------------------------------------------------- SpecLedger: racing calls

LedgerUser == CHOOSE u \in Members : TRUE
Balance == get_points(points, LedgerUser, GUILD_ID)

LedgerOps == {"add", "remove"}

EmptyTable == [k \in {} |-> 0]

\* The review workflow before any message arrived.
IdleIntake == [pc |-> "idle", author |-> 0, bot |-> FALSE, inTarget |-> FALSE, ctype |-> "absent",
               deleted |-> FALSE, handed |-> 0, notice |-> "none", fault |-> "none",
               overlays |-> 0]
NoFiles == [user |-> FALSE, out |-> FALSE]
NoCase == [made |-> FALSE, published |-> FALSE, member_id |-> 0, locked |-> FALSE,
           modmsg |-> "none", controls |-> FALSE, by |-> "none"]
NoCmd == [n |-> 0, cmd |-> "none", member |-> 0, reply |-> "none"]

WorkflowIdle ==
    /\ intake = [m \in MsgIds |-> IdleIntake]
    /\ files = [m \in MsgIds |-> NoFiles]
    /\ cases = [m \in MsgIds |-> NoCase]
    /\ handlers = [m \in MsgIds |-> <<>>]
    /\ trace = [m \in MsgIds |-> <<>>]
    /\ cmdlog = NoCmd

LedgerInit ==
    /\ start \in 0..MaxBal
    /\ points \in {Upsert(EmptyTable, Key(LedgerUser, GUILD_ID), start)}
                  \cup (IF start = 0 THEN {EmptyTable} ELSE {})
    /\ calls \in [Workers -> [op : LedgerOps, amt : 0..MaxAmt, pc : {"start"},
                              current : {0}, ret : {0}]]
    /\ WorkflowIdle

\* add_points: its one statement.
LedgerAdd(w) ==
    /\ calls[w].op = "add" /\ calls[w].pc = "start"
    /\ points' = add_points(points, LedgerUser, calls[w].amt, GUILD_ID)
    /\ calls' = [calls EXCEPT ![w].pc = "done",
                              ![w].ret = get_points(points', LedgerUser, GUILD_ID)]
    /\ UNCHANGED <<start, intake, files, cases, handlers, trace, cmdlog>>

\* remove_points, first statement: current = get_points(...)
LedgerRemoveRead(w) ==
    /\ calls[w].op = "remove" /\ calls[w].pc = "start"
    /\ calls' = [calls EXCEPT ![w].pc = "write",
                              ![w].current = get_points(points, LedgerUser, GUILD_ID)]
    /\ UNCHANGED <<points, start, intake, files, cases, handlers, trace, cmdlog>>

\* remove_points, second statement: the upsert of max(0, current - amount)
LedgerRemoveWrite(w) ==
    /\ calls[w].op = "remove" /\ calls[w].pc = "write"
    /\ points' = remove_points_write(points, LedgerUser,
                                     new_total(calls[w].current, calls[w].amt), GUILD_ID)
    /\ calls' = [calls EXCEPT ![w].pc = "done",
                              ![w].ret = get_points(points', LedgerUser, GUILD_ID)]
    /\ UNCHANGED <<start, intake, files, cases, handlers, trace, cmdlog>>

LedgerNext ==
    \E w \in Workers : LedgerAdd(w) \/ LedgerRemoveRead(w) \/ LedgerRemoveWrite(w)

SpecLedger == LedgerInit /\ [][LedgerNext]_vars

\* ------------------------------------------------- SpecLedger: the claims

RECURSIVE SumAmt(_)
SumAmt(ws) ==
    IF ws = {} THEN 0
    ELSE LET w == CHOOSE x \in ws : TRUE IN calls[w].amt + SumAmt(ws \ {w})

AllDone == \A w \in Workers : calls[w].pc = "done"
Adders == {w \in Workers : calls[w].op = "add"}
Removers == {w \in Workers : calls[w].op = "remove"}

\* C2: when every unit of work of the batch is add_points(key, 1), the balance
\* after the batch is the balance before it plus the number of units: no
\* increment is lost, whatever the interleaving of the statements.
C2_NoLostIncrement ==
    (AllDone /\ \A w \in Workers : calls[w].op = "add" /\ calls[w].amt = 1)
        => Balance = start + NWorkers

C2_Witness ==
    /\ AllDone
    /\ \A w \in Workers : calls[w].op = "add" /\ calls[w].amt = 1
    /\ start > 0
    /\ Balance = start + NWorkers

\* C4 (as claimed): one add_points(key, a) racing one remove_points(key, r) ends
\* with the balance one of the two sequential orders gives.
C4_AddRemoveSerializable ==
    (AllDone /\ Cardinality(Adders) = 1 /\ Cardinality(Removers) = 1
             /\ Cardinality(Workers) = 2)
        => LET a == SumAmt(Adders)
               r == SumAmt(Removers)
           IN  Balance \in {new_total(start + a, r), new_total(start, r) + a}

Actors == {"staff", "outsider"}     \* whether the clicking user is ADMIN_USER_ID / has ALLOWED_ROLE_ID
Buttons == {"verify", "reject"}
Outcomes == {"ok", "notfound", "error"}   \* an awaited platform call returns, raises discord.NotFound, or raises something else
ContentTypes == {"absent", "untyped", "image", "other"}  \* no attachment; attachment without content_type; image/...; any other type

Event(ev, by, before, total) == [ev |-> ev, by |-> by, before |-> before, total |-> total]

Init ==
    /\ points = EmptyTable
    /\ calls = [w \in Workers |-> [op |-> "add", amt |-> 0, pc |-> "done", current |-> 0, ret |-> 0]]
    /\ start = 0
    /\ WorkflowIdle

\* ---- on_message

\* A slip: the declared content type is not looked at.
is_vouch_submission_any_attachment(inTarget, ctype) == inTarget /\ ctype # "absent"

\* is_vouch_submission (lines 320-325)
is_vouch_submission(inTarget, ctype) == inTarget /\ ctype = "image"

\* A slip: the result of overlay_logo is ignored.
after_overlay_ignored(ok) == "review"

\* if not overlay_logo(...): send the notice and return (lines 342-344)
after_overlay(ok) == IF ok THEN "review" ELSE "overlay_notice"

\* A slip: the original message is deleted whether or not the review send worked.
delete_always(sent) == TRUE

\* message.delete() follows review_channel.send inside the try (lines 356-357):
\* it is reached only when the send returned.
delete_after(sent) == sent

\* The finally block of on_message: os.remove(user_img) if it exists.
IntakeFinally(f) == [f EXCEPT !.user = FALSE]

IntakeDone(m, f) ==
    /\ intake' = [intake EXCEPT ![m] = f]
    /\ files' = [files EXCEPT ![m] = IntakeFinally(@)]

\* on_message up to its first await (lines 316-337, 368).
OnMessage(m) ==
    /\ intake[m].pc = "idle"
    /\ \A x \in MsgIds : x < m => intake[x].pc # "idle"
    /\ \E author \in Members, isBot \in BOOLEAN, inTarget \in BOOLEAN,
          ctype \in ContentTypes, reviewChannel \in BOOLEAN :
         LET me == [intake[m] EXCEPT !.author = author, !.bot = isBot,
                                     !.inTarget = inTarget, !.ctype = ctype] IN
         IF isBot
           THEN intake' = [intake EXCEPT ![m] = [me EXCEPT !.pc = "done"]]
         ELSE IF is_vouch_submission(inTarget, ctype)
           THEN IF ~reviewChannel
                  THEN intake' = [intake EXCEPT ![m] = [me EXCEPT !.pc = "done",
                                                                  !.fault = "noreview"]]
                  ELSE intake' = [intake EXCEPT ![m] = [me EXCEPT !.pc = "save"]]
         ELSE intake' = [intake EXCEPT ![m] = [me EXCEPT !.pc = "done", !.handed = @ + 1]]
    /\ UNCHANGED <<points, calls, start, files, cases, handlers, trace, cmdlog>>

\* await attachment.save(user_img) returns; then the logo check, overlay_logo and
\* the construction of the view, up to the next await (lines 337-356).
IntakeSave(m) ==
    /\ intake[m].pc = "save"
    /\ \E saved \in BOOLEAN, partial \in BOOLEAN, logo \in BOOLEAN, overlay \in BOOLEAN :
         IF ~saved
           THEN \* the exception is printed; a partly written file is removed by finally
                /\ intake' = [intake EXCEPT ![m].pc = "done", ![m].fault = "save"]
                /\ files' = [files EXCEPT ![m] = IntakeFinally([@ EXCEPT !.user = partial])]
                /\ UNCHANGED cases
         ELSE IF ~logo
           THEN /\ intake' = [intake EXCEPT ![m].pc = "logo_notice", ![m].fault = "logo"]
                /\ files' = [files EXCEPT ![m].user = TRUE]
                /\ UNCHANGED cases
         ELSE IF after_overlay(overlay) = "overlay_notice"
           THEN \* overlay_logo caught its exception and returned False
                /\ intake' = [intake EXCEPT ![m].pc = "overlay_notice",
                                            ![m].fault = "overlay",
                                            ![m].overlays = @ + 1]
                /\ files' = [files EXCEPT ![m].user = TRUE]
                /\ UNCHANGED cases
         ELSE /\ intake' = [intake EXCEPT ![m].pc = "review",
                                          ![m].fault = IF overlay THEN @ ELSE "overlay",
                                          ![m].overlays = @ + 1]
              /\ files' = [files EXCEPT ![m] = [user |-> TRUE, out |-> overlay]]
              /\ cases' = [cases EXCEPT ![m] = [NoCase EXCEPT !.made = TRUE,
                                                             !.member_id = intake[m].author]]
    /\ UNCHANGED <<points, calls, start, handlers, trace, cmdlog>>

\* await message.channel.send(<notice>, delete_after=10) returns or raises; return.
IntakeNotice(m) ==
    /\ intake[m].pc \in {"logo_notice", "overlay_notice"}
    /\ \E sent \in BOOLEAN :
         IntakeDone(m, [intake[m] EXCEPT
                          !.pc = "done",
                          !.notice = IF ~sent THEN "failed"
                                     ELSE IF intake[m].pc = "logo_notice" THEN "logo"
                                     ELSE "overlay"])
    /\ UNCHANGED <<points, calls, start, cases, handlers, trace, cmdlog>>

\* await review_channel.send(embed, file, view) returns or raises (line 356).
IntakeReview(m) ==
    /\ intake[m].pc = "review"
    /\ \E sent \in BOOLEAN :
         IF delete_after(sent)
           THEN /\ intake' = [intake EXCEPT ![m].pc = "delete",
                                            ![m].fault = IF sent THEN @ ELSE "review"]
                /\ cases' = IF sent
                              THEN [cases EXCEPT ![m].published = TRUE,
                                                 ![m].modmsg = "pending",
                                                 ![m].controls = TRUE]
                              ELSE cases
                /\ UNCHANGED files
           ELSE /\ IntakeDone(m, [intake[m] EXCEPT !.pc = "done", !.fault = "review"])
                /\ UNCHANGED cases
    /\ UNCHANGED <<points, calls, start, handlers, trace, cmdlog>>

\* await message.delete() returns or raises (line 357); finally.
IntakeDelete(m) ==
    /\ intake[m].pc = "delete"
    /\ \E deleted \in BOOLEAN :
         IntakeDone(m, [intake[m] EXCEPT
                          !.pc = "done", !.deleted = deleted,
                          !.fault = IF deleted \/ @ # "none" THEN @ ELSE "delete"])
    /\ UNCHANGED <<points, calls, start, cases, handlers, trace, cmdlog>>

\* ---- VouchView

NewHandler(button, actor, accepted) ==
    [button |-> button, actor |-> actor, accepted |-> accepted,
     pc |-> IF accepted THEN "defer" ELSE "ack",
     total |-> 0, reply |-> "none", fault |-> "none", raised |-> FALSE]

\* A slip: the latch is left as it was.
lock_forgotten(locked) == locked

\* self._locked = True (lines 244, 288)
lock(locked) == TRUE

\* _cleanup_local_file: os.remove(self.image_path) if it exists.
\* (os.remove itself is taken to succeed.)
cleanup_local_file(f) == [f EXCEPT !.out = FALSE]

\* A slip: every exception is swallowed without a word to the actor.
except_silent(button, outcome) == "finally"

\* The except clauses: verify_button has `except discord.NotFound` before
\* `except Exception` (lines 275-279), reject_button only `except Exception` (303-305).
except_clause(button, outcome) ==
    IF button = "verify" /\ outcome = "notfound" THEN "followup_nf" ELSE "followup_err"

\* A slip: the public post is skipped.
public_guard_never(channel, fileExists) == FALSE

\* if public_channel and os.path.exists(self.image_path)  (line 261)
public_guard(channel, fileExists) == channel /\ fileExists

\* A slip: the Reject handler writes the Verify handler's text.
terminal_text_verified(button) == "verified"

\* The content of the edit: "Verified by <actor>" (line 269), "Rejected by <actor>" (line 297).
terminal_text(button) == IF button = "verify" THEN "verified" ELSE "rejected"

H(m, i) == handlers[m][i]
SetH(m, i, h) == handlers' = [handlers EXCEPT ![m][i] = h]
Log(m, e) == trace' = [trace EXCEPT ![m] = Append(@, e)]

\* The handler leaves its try statement: finally runs _cleanup_local_file.
Finally(m, i, h) ==
    /\ SetH(m, i, [h EXCEPT !.pc = "done"])
    /\ files' = [files EXCEPT ![m] = cleanup_local_file(@)]
    /\ Log(m, Event("cleanup", i, 0, 0))

\* An exception raised inside the try statement at step `step`.
Raise(m, i, step, outcome) ==
    LET h == [H(m, i) EXCEPT !.fault = IF @ = "none" THEN step ELSE @]
        to == except_clause(h.button, outcome)
    IN  IF to = "finally"
          THEN Finally(m, i, h)
          ELSE /\ SetH(m, i, [h EXCEPT !.pc = to])
               /\ UNCHANGED <<files, trace>>

\* A button of the moderation message is clicked: the handler runs to its first
\* await (lines 240-245, 284-289); nothing is checked about the clicking user.
Click(m) ==
    /\ cases[m].published /\ cases[m].controls
    /\ Len(handlers[m]) < MaxClicks
    /\ \E button \in Buttons, actor \in Actors :
         IF cases[m].locked
           THEN /\ handlers' = [handlers EXCEPT ![m] = Append(@, NewHandler(button, actor, FALSE))]
                /\ UNCHANGED cases
           ELSE /\ handlers' = [handlers EXCEPT ![m] = Append(@, NewHandler(button, actor, TRUE))]
                /\ cases' = [cases EXCEPT ![m].locked = lock(@)]
    /\ UNCHANGED <<points, calls, start, intake, files, trace, cmdlog>>

\* await interaction.response.send_message("Already processing...") returns or raises.
AckReturns(m, i) ==
    /\ H(m, i).pc = "ack"
    /\ \E outcome \in Outcomes :
         SetH(m, i, [H(m, i) EXCEPT !.pc = "done",
                                   !.reply = IF outcome = "ok" THEN "already" ELSE "none",
                                   !.raised = outcome # "ok"])
    /\ UNCHANGED <<points, calls, start, intake, files, cases, trace, cmdlog>>

\* verify_button: await interaction.response.defer() returns or raises (line 245,
\* outside the try); then add_points, up to await fetch_member (lines 247-249).
VerifyDeferReturns(m, i) ==
    /\ H(m, i).pc = "defer" /\ H(m, i).button = "verify"
    /\ \E outcome \in Outcomes, ledgerUp \in BOOLEAN :
         IF outcome # "ok"
           THEN /\ SetH(m, i, [H(m, i) EXCEPT !.pc = "done", !.fault = "defer", !.raised = TRUE])
                /\ UNCHANGED <<points, files, trace>>
         ELSE IF ~ledgerUp
           THEN /\ Raise(m, i, "ledger", "error")
                /\ UNCHANGED points
         ELSE LET before == get_points(points, cases[m].member_id, GUILD_ID)
                  tbl == add_points(points, cases[m].member_id, 1, GUILD_ID)
                  total == get_points(tbl, cases[m].member_id, GUILD_ID)
              IN  /\ points' = tbl
                  /\ SetH(m, i, [H(m, i) EXCEPT !.pc = "fetch", !.total = total])
                  /\ Log(m, Event("add", i, before, total))
                  /\ UNCHANGED files
    /\ UNCHANGED <<calls, start, intake, cases, cmdlog>>

\* verify_button: await fetch_member returns or raises; the embed is built and
\* the public channel looked up (lines 249-261).
VerifyFetchReturns(m, i) ==
    /\ H(m, i).pc = "fetch"
    /\ \E outcome \in Outcomes, channel \in BOOLEAN :
         IF outcome # "ok"
           THEN Raise(m, i, "fetch", outcome)
           ELSE /\ IF public_guard(channel, files[m].out)
                     THEN SetH(m, i, [H(m, i) EXCEPT !.pc = "send"])
                     ELSE SetH(m, i, [H(m, i) EXCEPT
                                        !.pc = "edit",
                                        !.fault = IF channel THEN @ ELSE "nochannel"])
                /\ UNCHANGED <<files, trace>>
    /\ UNCHANGED <<points, calls, start, intake, cases, cmdlog>>

\* reject_button: await interaction.response.defer() returns or raises (line 289,
\* outside the try); then the public channel is looked up (lines 292-293).
RejectDeferReturns(m, i) ==
    /\ H(m, i).pc = "defer" /\ H(m, i).button = "reject"
    /\ \E outcome \in Outcomes, channel \in BOOLEAN :
         IF outcome # "ok"
           THEN SetH(m, i, [H(m, i) EXCEPT !.pc = "done", !.fault = "defer", !.raised = TRUE])
         ELSE IF channel
           THEN SetH(m, i, [H(m, i) EXCEPT !.pc = "send"])
         ELSE SetH(m, i, [H(m, i) EXCEPT !.pc = "edit", !.fault = "nochannel"])
    /\ UNCHANGED <<points, calls, start, intake, files, cases, trace, cmdlog>>

\* await <public channel>.send(...) returns or raises (lines 262-266, 294).
SendReturns(m, i) ==
    /\ H(m, i).pc = "send"
    /\ \E outcome \in Outcomes :
         IF outcome # "ok"
           THEN Raise(m, i, "send", outcome)
           ELSE /\ SetH(m, i, [H(m, i) EXCEPT !.pc = "edit"])
                /\ Log(m, IF H(m, i).button = "verify"
                            THEN Event("post", i, 0, H(m, i).total)
                            ELSE Event("reject_notice", i, 0, 0))
                /\ UNCHANGED files
    /\ UNCHANGED <<points, calls, start, intake, cases, cmdlog>>

\* await interaction.message.edit(content=..., embed=None, view=None) returns or
\* raises (lines 268-272, 296-300).  Line 297 carries a stray ")" inside the
\* f-string replacement field; the edit is modelled as the text it is meant to
\* build, "Rejected by <actor>".
EditReturns(m, i) ==
    /\ H(m, i).pc = "edit"
    /\ \E outcome \in Outcomes :
         IF outcome # "ok"
           THEN /\ Raise(m, i, "edit", outcome)
                /\ UNCHANGED cases
           ELSE /\ SetH(m, i, [H(m, i) EXCEPT !.pc = "followup"])
                /\ cases' = [cases EXCEPT
                               ![m].modmsg = terminal_text(H(m, i).button),
                               ![m].controls = FALSE,
                               ![m].by = H(m, i).actor]
                /\ Log(m, Event("edit", i, 0, 0))
                /\ UNCHANGED files
    /\ UNCHANGED <<points, calls, start, intake, cmdlog>>

\* await interaction.followup.send("... verified and posted." / "... rejected.")
\* returns or raises, still inside the try (lines 273, 301).
FollowupReturns(m, i) ==
    /\ H(m, i).pc = "followup"
    /\ \E outcome \in Outcomes :
         IF outcome # "ok"
           THEN Raise(m, i, "followup", outcome)
           ELSE Finally(m, i, [H(m, i) EXCEPT !.reply = "ok"])
    /\ UNCHANGED <<points, calls, start, intake, cases, cmdlog>>

\* await interaction.followup.send("User not found." / "Unexpected error: ...") in
\* an except clause returns or raises; finally runs either way (lines 275-281, 303-307).
ErrorFollowupReturns(m, i) ==
    /\ H(m, i).pc \in {"followup_nf", "followup_err"}
    /\ \E outcome \in Outcomes :
         Finally(m, i, [H(m, i) EXCEPT
                          !.reply = IF outcome # "ok" THEN "none"
                                    ELSE IF H(m, i).pc = "followup_nf" THEN "notfound"
                                    ELSE "error",
                          !.raised = outcome # "ok"])
    /\ UNCHANGED <<points, calls, start, intake, cases, cmdlog>>

\* ---- commands

CmdAmounts == (0 - 1)..MaxAmt     \* `points: int` converts any integer, negative ones too

Said(cmd, member, reply) ==
    cmdlog' = [n |-> cmdlog.n + 1, cmd |-> cmd, member |-> member, reply |-> reply]

\* What every command shares: the has_permissions(administrator=True) check made
\* before the body runs, and on_command_error, which answers MissingPermissions
\* and only prints any other error (lines 406-417).
Refused(cmd, member, admin, ledgerUp) ==
    /\ ~(admin /\ ledgerUp)
    /\ Said(cmd, member, IF ~admin THEN "need_admin" ELSE "none")
    /\ UNCHANGED points

\* !addpoints member points (lines 371-375)
cmd_addpoints ==
    \E member \in Members, amount \in CmdAmounts, admin \in BOOLEAN, ledgerUp \in BOOLEAN :
        /\ \/ Refused("addpoints", member, admin, ledgerUp)
           \/ /\ admin /\ ledgerUp
              /\ points' = add_points(points, member, amount, GUILD_ID)
              /\ Said("addpoints", member, "added")
        /\ UNCHANGED <<calls, start, intake, files, cases, handlers, trace>>

\* !removepoints member points (lines 377-381)
cmd_removepoints ==
    \E member \in Members, amount \in CmdAmounts, admin \in BOOLEAN, ledgerUp \in BOOLEAN :
        /\ \/ Refused("removepoints", member, admin, ledgerUp)
           \/ /\ admin /\ ledgerUp
              /\ points' = remove_points(points, member, amount, GUILD_ID)
              /\ Said("removepoints", member, "removed")
        /\ UNCHANGED <<calls, start, intake, files, cases, handlers, trace>>

\* !points [member] (lines 383-387): no permission check
cmd_points ==
    \E member \in Members, ledgerUp \in BOOLEAN :
        /\ Said("points", member, IF ledgerUp THEN "has" ELSE "none")
        /\ UNCHANGED <<points, calls, start, intake, files, cases, handlers, trace>>

\* !resetpoints member (lines 389-393)
cmd_resetpoints ==
    \E member \in Members, admin \in BOOLEAN, ledgerUp \in BOOLEAN :
        /\ \/ Refused("resetpoints", member, admin, ledgerUp)
           \/ /\ admin /\ ledgerUp
              /\ points' = reset_points(points, member, GUILD_ID)
              /\ Said("resetpoints", member, "reset")
        /\ UNCHANGED <<calls, start, intake, files, cases, handlers, trace>>

\* !redeem user (lines 395-403)
cmd_redeem ==
    \E member \in Members, admin \in BOOLEAN, ledgerUp \in BOOLEAN :
        /\ \/ Refused("redeem", member, admin, ledgerUp)
           \/ /\ admin /\ ledgerUp
              /\ LET total == get_points(points, member, GUILD_ID) IN
                 IF total > 0
                   THEN /\ points' = reset_points(points, member, GUILD_ID)
                        /\ Said("redeem", member, "redeemed")
                   ELSE /\ UNCHANGED points
                        /\ Said("redeem", member, "nothing")
        /\ UNCHANGED <<calls, start, intake, files, cases, handlers, trace>>

Next ==
    \/ \E m \in MsgIds : OnMessage(m)
    \/ \E m \in MsgIds : IntakeSave(m)
    \/ \E m \in MsgIds : IntakeNotice(m)
    \/ \E m \in MsgIds : IntakeReview(m)
    \/ \E m \in MsgIds : IntakeDelete(m)
    \/ \E m \in MsgIds : Click(m)
    \/ \E m \in MsgIds : \E i \in DOMAIN handlers[m] : AckReturns(m, i)
    \/ \E m \in MsgIds : \E i \in DOMAIN handlers[m] : VerifyDeferReturns(m, i)
    \/ \E m \in MsgIds : \E i \in DOMAIN handlers[m] : VerifyFetchReturns(m, i)
    \/ \E m \in MsgIds : \E i \in DOMAIN handlers[m] : RejectDeferReturns(m, i)
    \/ \E m \in MsgIds : \E i \in DOMAIN handlers[m] : SendReturns(m, i)
    \/ \E m \in MsgIds : \E i \in DOMAIN handlers[m] : EditReturns(m, i)
    \/ \E m \in MsgIds : \E i \in DOMAIN handlers[m] : FollowupReturns(m, i)
    \/ \E m \in MsgIds : \E i \in DOMAIN handlers[m] : ErrorFollowupReturns(m, i)
    \/ cmdlog.n < MaxCmds /\ cmd_addpoints
    \/ cmdlog.n < MaxCmds /\ cmd_removepoints
    \/ cmdlog.n < MaxCmds /\ cmd_points
    \/ cmdlog.n < MaxCmds /\ cmd_resetpoints
    \/ cmdlog.n < MaxCmds /\ cmd_redeem

Spec == Init /\ [][Next]_vars

\* ------------------------------------------------- Spec: the claims

Handlers(m) == DOMAIN handlers[m]
Accepted(m) == {i \in Handlers(m) : handlers[m][i].accepted}
Events(m, ev) == {j \in DOMAIN trace[m] : trace[m][j].ev = ev}

\* C1: for every review case, add_points is called at most once, at most one
\* click is accepted, and every click after the accepted one is answered with
\* "Already processing..." only: it makes no ledger call, no public send and
\* no edit of the moderation message.
C1_SingleResolution ==
    \A m \in MsgIds :
        /\ Cardinality(Accepted(m)) <= 1
        /\ Cardinality(Events(m, "add")) <= 1
        /\ \A i \in Handlers(m) :
             (\E a \in Accepted(m) : a < i)
                => /\ ~handlers[m][i].accepted
                   /\ handlers[m][i].pc \in {"ack", "done"}
                   /\ handlers[m][i].reply \in {"none", "already"}
                   /\ \A j \in DOMAIN trace[m] : trace[m][j].by # i

\* A second Verify click answered "Already processing..." while the accepted
\* Verify, which has credited, still waits for fetch_member.
C1_Witness ==
    \E m \in MsgIds :
        /\ Len(handlers[m]) >= 2
        /\ handlers[m][1].button = "verify" /\ handlers[m][1].pc = "fetch"
        /\ handlers[m][2].button = "verify" /\ handlers[m][2].pc = "done"
        /\ handlers[m][2].reply = "already"
        /\ Cardinality(Events(m, "add")) = 1

\* C3 (as claimed): the stored balance of every key is >= 0 in every reachable state.
C3_BalanceNeverNegative ==
    \A k \in DOMAIN points : points[k] >= 0

\* C6 (as claimed): every handler that flipped the latch ends with the case's
\* watermarked file deleted.
C6_LatchedCaseIsCleaned ==
    \A m \in MsgIds : \A i \in Handlers(m) :
        (handlers[m][i].accepted /\ handlers[m][i].pc = "done") => ~files[m].out

\* C7 (as claimed): an intake run that ends without a published review case
\* leaves neither temporary file behind.
C7_FailedIntakeLeavesNoFile ==
    \A m \in MsgIds :
        (intake[m].pc = "done" /\ ~cases[m].published)
            => ~files[m].user /\ ~files[m].out

\* C8 (as claimed): only a click by a staff actor flips the latch.
C8_OnlyStaffResolves ==
    \A m \in MsgIds : \A i \in Handlers(m) :
        handlers[m][i].accepted => handlers[m][i].actor = "staff"

\* C9: while no external call of an accepted Verify has failed, what it has done
\* for the case is a prefix of: one add_points that made the balance previous + 1;
\* the public post of the watermarked file with the total that add returned; the
\* edit of the moderation message to "Verified by <actor>" without controls; the
\* deletion of the watermarked file.  The file exists until that last step, and
\* the handler ends with all four done and the actor told so.
C9_VerifyOrder ==
    \A m \in MsgIds : \A i \in Handlers(m) :
        LET h == handlers[m][i]
            t == trace[m]
        IN  (h.accepted /\ h.button = "verify" /\ h.fault = "none")
              => /\ Len(t) <= 4
                 /\ Len(t) >= 1 => /\ t[1].ev = "add" /\ t[1].by = i
                                   /\ t[1].total = t[1].before + 1
                                   /\ h.total = t[1].total
                 /\ Len(t) >= 2 => t[2] = Event("post", i, 0, t[1].total)
                 /\ Len(t) >= 3 => /\ t[3] = Event("edit", i, 0, 0)
                                   /\ cases[m].modmsg = "verified"
                                   /\ ~cases[m].controls
                                   /\ cases[m].by = h.actor
                 /\ Len(t) >= 4 => t[4] = Event("cleanup", i, 0, 0)
                 /\ files[m].out <=> Len(t) < 4
                 /\ h.pc = "done" => Len(t) = 4 /\ h.reply = "ok"

\* An approval that went through for a submitter who already had points.
C9_Witness ==
    \E m \in MsgIds :
        /\ Len(handlers[m]) >= 1
        /\ handlers[m][1].button = "verify" /\ handlers[m][1].pc = "done"
        /\ handlers[m][1].fault = "none"
        /\ Len(trace[m]) = 4
        /\ trace[m][1].before >= 1
        /\ ~files[m].out

FetchFailed(m, i) ==
    /\ handlers[m][i].accepted /\ handlers[m][i].button = "verify"
    /\ handlers[m][i].fault = "fetch"

C10_State ==
    \A m \in MsgIds : \A i \in Handlers(m) :
        FetchFailed(m, i)
          => /\ Events(m, "add") = {1} /\ trace[m][1].by = i
             /\ Accepted(m) = {i}
             /\ handlers[m][i].pc = "done"
                  => \/ handlers[m][i].reply \in {"notfound", "error"}
                     \/ handlers[m][i].raised

C10_Step ==
    \A m \in MsgIds : \A i \in Handlers(m) :
        (FetchFailed(m, i) /\ handlers'[m] # handlers[m]) => points' = points

\* C10: once fetch_member has failed in an accepted Verify, the case has exactly
\* one add_points call, made by that handler, and no step of any handler of the
\* case changes the ledger afterwards (no rollback, no second credit); no other
\* click of the case is accepted; and the handler ends having told the actor
\* "User not found." or "Unexpected error: ...", unless that send itself raised.
C10_FetchFailureKeepsCredit == []C10_State /\ [][C10_Step]_vars

\* fetch_member raised NotFound: the actor was told, the credit is in the
\* ledger, and a later Verify click was answered "Already processing...".
C10_Witness ==
    \E m \in MsgIds :
        /\ Len(handlers[m]) >= 2
        /\ FetchFailed(m, 1)
        /\ handlers[m][1].pc = "done" /\ handlers[m][1].reply = "notfound"
        /\ handlers[m][2].button = "verify" /\ handlers[m][2].pc = "done"
        /\ handlers[m][2].reply = "already"
        /\ get_points(points, cases[m].member_id, GUILD_ID) = trace[m][1].total
        /\ trace[m][1].total = trace[m][1].before + 1

C12_LedgerFailureReported ==
    /\ \A m \in MsgIds : \A i \in Handlers(m) :
         (handlers[m][i].fault = "ledger" /\ handlers[m][i].pc = "done")
            => handlers[m][i].reply = "error" \/ handlers[m][i].raised
    /\ cmdlog.n > 0 => cmdlog.reply # "none"

ValidSubmission(m) == ~intake[m].bot /\ intake[m].inTarget /\ intake[m].ctype = "image"

\* C13: a message from a non-bot author that is not in the submission channel,
\* or has no attachment, or whose first attachment has no declared content type
\* or one that does not start with "image/", ends on_message at once: no view
\* is built, no temporary file is written, the message is not deleted, and it
\* was handed to bot.process_commands exactly once.
C13_NonSubmissionFallsThrough ==
    \A m \in MsgIds :
        (intake[m].pc # "idle" /\ ~intake[m].bot
           /\ (~intake[m].inTarget \/ intake[m].ctype \in {"absent", "untyped", "other"}))
          => /\ intake[m].pc = "done"
             /\ intake[m].handed = 1
             /\ ~cases[m].made /\ ~cases[m].published
             /\ files[m] = NoFiles
             /\ ~intake[m].deleted
             /\ handlers[m] = <<>> /\ trace[m] = <<>>

\* A non-image attachment posted in the submission channel by a member.
C13_Witness ==
    \E m \in MsgIds :
        /\ intake[m].pc = "done" /\ ~intake[m].bot
        /\ intake[m].inTarget /\ intake[m].ctype = "other"
        /\ intake[m].handed = 1

\* C14: overlay_logo runs at most once per message and a view exists only after
\* it succeeded; when it failed, no view is built, nothing is sent for review,
\* the case has no ledger call, the message is not handed to command processing,
\* and on_message ends after the one notice to the submitter (sent, or its send
\* raised).
C14_WatermarkFailure ==
    \A m \in MsgIds :
        /\ intake[m].overlays <= 1
        /\ cases[m].made => intake[m].overlays = 1 /\ intake[m].fault # "overlay"
        /\ intake[m].fault = "overlay"
             => /\ intake[m].overlays = 1
                /\ ~cases[m].made /\ ~cases[m].published
                /\ handlers[m] = <<>> /\ trace[m] = <<>>
                /\ intake[m].handed = 0 /\ ~intake[m].deleted
                /\ \/ intake[m].pc = "overlay_notice" /\ intake[m].notice = "none"
                   \/ intake[m].pc = "done" /\ intake[m].notice \in {"overlay", "failed"}

\* The watermark failed and the submitter was told.
C14_Witness ==
    \E m \in MsgIds :
        /\ ValidSubmission(m)
        /\ intake[m].fault = "overlay" /\ intake[m].pc = "done"
        /\ intake[m].notice = "overlay"
        /\ ~cases[m].made

\* C19: the original message is deleted only in a run whose moderation message
\* was sent to the review channel; a run in which saving, the logo check,
\* watermarking or the review send failed never deletes it.
C19_DeleteOnlyAfterReviewSend ==
    \A m \in MsgIds :
        /\ intake[m].deleted => cases[m].published
        /\ intake[m].fault \in {"noreview", "save", "logo", "overlay", "review"}
             => ~intake[m].deleted /\ intake[m].pc # "delete"
        /\ intake[m].pc = "delete" => cases[m].published

\* The moderation message was sent, then the original message deleted.
C19_Witness ==
    \E m \in MsgIds :
        /\ intake[m].pc = "done" /\ intake[m].deleted
        /\ cases[m].published /\ cases[m].controls

\* ------------------------------------------------- SpecSequential: one caller

\* One caller runs ledger functions one after another on one key that starts
\* without a row.  `calls` is the record of the calls made: the function, its
\* amount, what it returned, the table it left and what get_points then returned.

LedgerKey == Key(LedgerUser, GUILD_ID)

Called(op, amt, ret) ==
    calls' = Append(calls, [op |-> op, amt |-> amt, ret |-> ret, tbl |-> points',
                            got |-> get_points(points', LedgerUser, GUILD_ID)])

SequentialInit ==
    /\ points = EmptyTable
    /\ calls = <<>>
    /\ start = 0
    /\ WorkflowIdle

\* total = add_points(user_id, amount): int(cur.fetchone()[0]) of RETURNING points
SeqAdd ==
    \E amount \in 0..MaxAmt :
        /\ points' = add_points(points, LedgerUser, amount, GUILD_ID)
        /\ Called("add", amount, points'[LedgerKey])

\* total = remove_points(user_id, amount)
SeqRemove ==
    \E amount \in 0..MaxAmt :
        /\ points' = remove_points(points, LedgerUser, amount, GUILD_ID)
        /\ Called("remove", amount, points'[LedgerKey])

\* reset_points(user_id) returns None
SeqReset ==
    /\ points' = reset_points(points, LedgerUser, GUILD_ID)
    /\ Called("reset", 0, 0)

SequentialNext ==
    /\ Len(calls) < MaxCalls
    /\ SeqAdd \/ SeqRemove \/ SeqReset
    /\ UNCHANGED <<start, intake, files, cases, handlers, trace, cmdlog>>

SpecSequential == SequentialInit /\ [][SequentialNext]_vars

\* The balance get_points returned after call j - 1 (0 before the first call).
Previous(j) == IF j = 1 THEN 0 ELSE calls[j - 1].got

\* C15: in every sequence of calls on a key that starts absent, add_points(a)
\* returns previous + a and remove_points(r) returns previous - r, or 0 when
\* that is negative; get_points then returns the same value, and it is never
\* negative.
C15_SequentialArithmetic ==
    \A j \in DOMAIN calls :
        /\ calls[j].op = "add" => calls[j].ret = Previous(j) + calls[j].amt
        /\ calls[j].op = "remove"
             => calls[j].ret = (IF Previous(j) - calls[j].amt > 0
                                  THEN Previous(j) - calls[j].amt ELSE 0)
        /\ calls[j].op \in {"add", "remove"} => calls[j].got = calls[j].ret
        /\ calls[j].got >= 0

\* A credit, a removal that empties the balance, a removal that clamps at 0.
C15_Witness ==
    /\ Len(calls) = 3
    /\ calls[1].op = "add" /\ calls[1].amt = 1
    /\ calls[2].op = "remove" /\ calls[2].amt = 1 /\ calls[2].got = 0
    /\ calls[3].op = "remove" /\ calls[3].amt = 1 /\ calls[3].got = 0

\* C17: after reset_points the key has a row holding 0 and get_points returns 0,
\* whatever calls came before, also when the key had no row; a reset that
\* follows a reset leaves the table as it was.
C17_ResetThenGet ==
    \A j \in DOMAIN calls :
        calls[j].op = "reset"
          => /\ calls[j].got = 0
             /\ LedgerKey \in DOMAIN calls[j].tbl
             /\ calls[j].tbl[LedgerKey] = 0
             /\ (j > 1 /\ calls[j - 1].op = "reset") => calls[j].tbl = calls[j - 1].tbl

\* Two resets in a row after a credit.
C17_Witness ==
    /\ Len(calls) = 3
    /\ calls[1].op = "add" /\ calls[1].amt = 1
    /\ calls[2].op = "reset" /\ calls[3].op = "reset"
    /\ calls[3].got = 0

\* ------------------------------------------------- SpecCommands: commands only

\* The commands run one after another, nothing else touching the ledger.
CommandsNext ==
    /\ cmdlog.n < MaxCmdSeq
    /\ cmd_addpoints \/ cmd_removepoints \/ cmd_points \/ cmd_resetpoints \/ cmd_redeem

SpecCommands == Init /\ [][CommandsNext]_vars

\* This step is a !redeem whose body ran (the invoker is an administrator and
\* the ledger answered).
RedeemRan ==
    /\ cmdlog'.n = cmdlog.n + 1
    /\ cmdlog'.cmd = "redeem"
    /\ cmdlog'.reply \in {"redeemed", "nothing"}

RedeemEffect ==
    RedeemRan =>
        LET before == get_points(points, cmdlog'.member, GUILD_ID)
            after == get_points(points', cmdlog'.member, GUILD_ID)
        IN  /\ before = 0 => cmdlog'.reply = "nothing" /\ after = 0
            /\ before > 0 => cmdlog'.reply = "redeemed" /\ after = 0
            /\ after = 0

\* C16 (as claimed): redeem on a balance of 0 (or no row) reports "no points to
\* redeem" and leaves 0; on a balance above 0 it sets 0 and reports success;
\* with nothing else running, the balance after redeem is always 0.
C16_RedeemLeavesZero == [][RedeemEffect]_vars

\* ------------------------------------------------- Spec: the latch (C20)

\* An accepted Verify that failed before or at the ledger call: its defer
\* raised, or add_points raised.
FailedBeforeCredit(m, i) ==
    /\ handlers[m][i].accepted /\ handlers[m][i].button = "verify"
    /\ handlers[m][i].fault \in {"defer", "ledger"}

C20_State ==
    \A m \in MsgIds : \A i \in Handlers(m) :
        FailedBeforeCredit(m, i)
          => /\ cases[m].locked
             /\ Accepted(m) = {i}
             /\ Events(m, "add") = {}
             /\ Events(m, "reject_notice") = {}
             /\ cases[m].modmsg # "rejected"

C20_Step ==
    /\ \A m \in MsgIds : cases[m].locked => cases'[m].locked
    /\ handlers' # handlers
         => \A k \in DOMAIN points : k \in DOMAIN points' /\ points'[k] >= points[k]

\* C20: a latch that is set stays set in every step; a case whose accepted Verify
\* failed at its defer or at add_points stays latched, has no other accepted
\* click, no add_points call, no rejection notice and no "Rejected by" edit,
\* whatever is clicked on it afterwards; and no step of a button handler lowers
\* any stored balance.
C20_LatchMonotonic == []C20_State /\ [][C20_Step]_vars

\* add_points raised in the accepted Verify; the actor was told of the error, and
\* a later Reject click was answered "Already processing...": nothing credited,
\* nothing rejected.
C20_Witness ==
    \E m \in MsgIds :
        /\ Len(handlers[m]) >= 2
        /\ FailedBeforeCredit(m, 1) /\ handlers[m][1].fault = "ledger"
        /\ handlers[m][1].pc = "done" /\ handlers[m][1].reply = "error"
        /\ handlers[m][2].button = "reject" /\ handlers[m][2].pc = "done"
        /\ handlers[m][2].reply = "already"
        /\ cases[m].locked /\ cases[m].modmsg # "rejected"
        /\ Events(m, "add") = {}

\* ------------------------------------------------- SpecMigrate: init_db

\* on_ready runs init_db on a table left by an earlier deployment: a global one
\* (rows keyed (user_id)) or a per-guild one (rows keyed (guild_id, user_id)).
\* `start` is that table, `calls` the PER_GUILD setting of this deployment, the
\* number of runs and the table the first run left.

Guilds == {GUILD_ID, GUILD_ID + 1}      \* this bot's guild and another one

GlobalKeys == {<<u>> : u \in Members}
GuildKeys == {<<g, u>> : g \in Guilds, u \in Members}

TablesOn(keys) == UNION {[d -> 0..MaxAmt] : d \in SUBSET keys}

\* SELECT 1 FROM information_schema.columns WHERE ... column_name='guild_id'
\* (a table without rows gives the same rows either way)
has_guild_column(tbl) == \E k \in DOMAIN tbl : Len(k) = 2

\* SUM(points)::int over the rows `rows` of tbl
RECURSIVE SumPoints(_, _)
SumPoints(tbl, rows) ==
    IF rows = {} THEN 0
    ELSE LET k == CHOOSE x \in rows : TRUE IN tbl[k] + SumPoints(tbl, rows \ {k})

\* A slip: the collapse keeps this bot's guild only instead of summing.
init_db_own_guild_only(tbl, per_guild) ==
    IF per_guild
      THEN [k \in {IF Len(x) = 2 THEN x ELSE <<GUILD_ID, x[1]>> : x \in DOMAIN tbl}
              |-> IF k \in DOMAIN tbl THEN tbl[k] ELSE tbl[<<k[2]>>]]
    ELSE IF has_guild_column(tbl)
      THEN [k \in {<<x[2]>> : x \in {y \in DOMAIN tbl : y[1] = GUILD_ID}}
              |-> tbl[<<GUILD_ID, k[1]>>]]
    ELSE tbl

\* init_db (lines 38-112).  PER_GUILD: the guild_id column is added if missing,
\* rows whose guild_id is NULL get GUILD_ID, the primary key is re-created as
\* (guild_id, user_id).  Otherwise, when the table has a guild_id column, it is
\* replaced by a (user_id) table of SUM(points) GROUP BY user_id.
init_db(tbl, per_guild) ==
    IF per_guild
      THEN [k \in {IF Len(x) = 2 THEN x ELSE <<GUILD_ID, x[1]>> : x \in DOMAIN tbl}
              |-> IF k \in DOMAIN tbl THEN tbl[k] ELSE tbl[<<k[2]>>]]
    ELSE IF has_guild_column(tbl)
      THEN [k \in {<<x[2]>> : x \in DOMAIN tbl}
              |-> SumPoints(tbl, {x \in DOMAIN tbl : x[2] = k[1]})]
    ELSE tbl

MigrateInit ==
    /\ start \in TablesOn(GlobalKeys) \cup TablesOn(GuildKeys)
    /\ points = start
    /\ calls \in [per_guild : BOOLEAN, runs : {0}, first : {EmptyTable}]
    /\ WorkflowIdle

\* on_ready: init_db() (lines 310-313); it fires again on every reconnect.
on_ready ==
    /\ calls.runs < MaxRuns
    /\ points' = init_db(points, calls.per_guild)
    /\ calls' = [calls EXCEPT !.runs = @ + 1,
                              !.first = IF calls.runs = 0 THEN points' ELSE @]
    /\ UNCHANGED <<start, intake, files, cases, handlers, trace, cmdlog>>

SpecMigrate == MigrateInit /\ [][on_ready]_vars

\* The sum of a member's points over the guilds of the old per-guild table.
RECURSIVE OldSum(_, _)
OldSum(u, gs) ==
    IF gs = {} THEN 0
    ELSE LET g == CHOOSE x \in gs : TRUE
         IN  (IF <<g, u>> \in DOMAIN start THEN start[<<g, u>>] ELSE 0) + OldSum(u, gs \ {g})

OldIsGlobal == DOMAIN start \subseteq GlobalKeys
OldIsPerGuild == DOMAIN start \subseteq GuildKeys

\* C18: after init_db has run, a global table under PER_GUILD holds each member's
\* points unchanged under (GUILD_ID, member) and nothing else; a per-guild table
\* without PER_GUILD holds, for each member that had a row, the sum of the
\* member's points over the guilds and nothing else; a table already of the
\* configured shape is unchanged; and every later run leaves the table as the
\* first run left it.
C18_MigrationPreservesBalances ==
    calls.runs >= 1
      => /\ (calls.per_guild /\ OldIsGlobal)
              => /\ DOMAIN points = {<<GUILD_ID, k[1]>> : k \in DOMAIN start}
                 /\ \A k \in DOMAIN start : points[<<GUILD_ID, k[1]>>] = start[k]
         /\ (~calls.per_guild /\ OldIsPerGuild)
              => /\ DOMAIN points = {<<k[2]>> : k \in DOMAIN start}
                 /\ \A k \in DOMAIN points : points[k] = OldSum(k[1], Guilds)
         /\ (calls.per_guild /\ OldIsPerGuild) => points = start
         /\ (~calls.per_guild /\ OldIsGlobal) => points = start
         /\ points = calls.first

\* A member with points in two guilds, collapsed to one global row, init_db run twice.
C18_Witness ==
    /\ calls.runs = 2 /\ ~calls.per_guild
    /\ \E u \in Members :
         /\ \A g \in Guilds : <<g, u>> \in DOMAIN start /\ start[<<g, u>>] = 1
         /\ <<u>> \in DOMAIN points /\ points[<<u>>] = 2

====
